---- MODULE Spec2Model ----
(***************************************************************************)
(* Serializability analysis of transaction schedules.                      *)
(*                                                                         *)
(* Five command line programs are modelled, selected by `prog`:            *)
(*   "csr"    homework-7/csr.py             conflict graph, CSR            *)
(*   "cocsr"  homework-8/csr-ocsr-cocsr.py  CSR, OCSR, COCSR               *)
(*   "xcsr"   homework-10/xcsr.py           CSR, XCSR (abort expansion)    *)
(*   "herbrand"  homework-5/herbrand_semantics.py   Herbrand semantics     *)
(*   "shuffle"   homework-4/shuffle_transactions.py shuffle product        *)
(* Each program parses one schedule, builds its conflict graph and prints  *)
(* its verdicts.  `schedule` is the parsed input, `out` the verdict lines  *)
(* printed so far, `pc` the position in the script.  `hs` is the dict of    *)
(* herbrand_semantics.py, `transactions` the input of                      *)
(* shuffle_transactions.py.                                                *)
(***************************************************************************)
EXTENDS Integers, Sequences, FiniteSets, TLC

VARIABLES prog, schedule, pc, dg, eq, exp_s, exp_dg, out, hs, transactions

vars == <<prog, schedule, pc, dg, eq, exp_s, exp_dg, out, hs, transactions>>

(***************************************************************************)
(* Bounds of the model.                                                    *)
(***************************************************************************)
\* longest schedule enumerated exhaustively (the named scenarios are longer)
MaxLen == 3

\* transaction identifiers and variables of the exhaustively enumerated schedules
Trs == {1, 2, 3}
Vars == {"x", "y"}

Programs == {"csr", "cocsr", "xcsr"}

(***************************************************************************)
(* Operations.  The three programs share the value type Op; the revert     *)
(* field exists in xcsr.py only and stays FALSE in the two other programs. *)
(* The transaction identifier is the digit the parser matched, the         *)
(* variable is "" when the token has no parenthesised part.                *)
(***************************************************************************)
Op(op_type, tr, variable) ==
    [op_type |-> op_type, tr |-> tr, variable |-> variable, revert |-> FALSE]

reverted_op(op) ==
    [op_type |-> op.op_type, tr |-> op.tr, variable |-> op.variable, revert |-> TRUE]

R(t, v) == Op("r", t, v)
W(t, v) == Op("w", t, v)
C(t) == Op("c", t, "")
A(t) == Op("a", t, "")

\* The tokens each program's pattern accepts, in the grammar r<t>(<v>),
\* w<t>(<v>), c<t>, a<t>; csr.py knows reads and writes only, csr-ocsr-cocsr.py
\* adds commits, xcsr.py adds aborts.
Tokens(p) ==
    {Op(k, t, v) : k \in {"r", "w"}, t \in Trs, v \in Vars}
    \cup (IF p \in {"cocsr", "xcsr"} THEN {C(t) : t \in Trs} ELSE {})
    \cup (IF p = "xcsr" THEN {A(t) : t \in Trs} ELSE {})

\* Named schedules of the documentation.
Scenario1 ==
    <<W(0, "x"), W(0, "y"), R(1, "x"), R(2, "y"), W(2, "x"), W(1, "y"), C(0), C(1), C(2)>>
Scenario1NoCommit == SubSeq(Scenario1, 1, 6)
Scenario2 == <<R(1, "x"), W(2, "x"), R(1, "y"), W(2, "y")>>
Scenario3 == <<W(1, "x"), A(1), W(2, "x"), C(2)>>
\* The patterns of csr-ocsr-cocsr.py and xcsr.py make the parenthesised
\* variable optional for every operation type, so a commit may carry one.
CommitWithVariable == <<Op("c", 1, "x"), W(2, "x"), R(1, "x")>>
AbortOfTwoWrites == <<R(1, "x"), R(2, "x"), W(1, "x"), W(1, "y"), A(1), C(2)>>
\* transaction 1 commits before 2 starts, the conflicts order 2 before 3 before 1
Scenario4 == <<W(3, "x"), W(1, "x"), C(1), W(2, "y"), C(2), W(3, "y"), C(3)>>

\* both transactions end with their commit, 2 starts after the commit of 1
CommitOrdered == <<W(1, "x"), C(1), R(2, "x"), W(2, "y"), C(2)>>

Scenarios(p) ==
    CASE p = "csr" -> {Scenario1NoCommit, Scenario2}
      [] p = "cocsr" -> {Scenario1, Scenario2, Scenario4, CommitWithVariable, CommitOrdered}
      [] p = "xcsr" -> {Scenario1, Scenario2, Scenario3, CommitWithVariable, AbortOfTwoWrites}

\* What get_schedule_from_string can hand to the program.
Schedules(p) ==
    UNION {[1..n -> Tokens(p)] : n \in 0..MaxLen} \cup Scenarios(p)

(***************************************************************************)
(* Sequence helpers.                                                       *)
(***************************************************************************)
Range(s) == {s[i] : i \in DOMAIN s}

\* The keys of a dict (or the nodes of a graph) filled from s: the distinct
\* elements of s in order of first appearance.
RECURSIVE InsertionOrder(_)
InsertionOrder(s) ==
    IF s = <<>> THEN <<>>
    ELSE LET r == InsertionOrder(SubSeq(s, 1, Len(s) - 1))
             l == s[Len(s)]
         IN IF l \in Range(r) THEN r ELSE Append(r, l)

(***************************************************************************)
(* build_conflict_graph.                                                   *)
(***************************************************************************)
\* variable_transactions: the keys in insertion order and the list of each key
variable_keys(sch) == InsertionOrder([i \in 1..Len(sch) |-> sch[i].variable])
variable_ops(sch, var) == SelectSeq(sch, LAMBDA o : o.variable = var)

\* a variant that takes the nodes from the reads and writes only
graph_nodes_ReadWriteOnly(sch) ==
    LET rw == SelectSeq(sch, LAMBDA o : o.op_type \in {"r", "w"})
    IN InsertionOrder([i \in 1..Len(rw) |-> rw[i].tr])

\* dg.add_nodes_from(op.tr for op in sch)
graph_nodes(sch) == InsertionOrder([i \in 1..Len(sch) |-> sch[i].tr])

\* The filter of the list comprehension that selects the earlier operations
\* prev_op of the same variable an edge is added from, per program.
ConflictsCsr(prev_op, op) ==
    IF op.op_type = "r" THEN prev_op.op_type = "w"
    ELSE prev_op.tr # op.tr

\* a variant in which a write conflicts with earlier writes only
ConflictsCocsr_WriteWriteOnly(prev_op, op) ==
    IF op.op_type = "r" THEN prev_op.op_type = "w"
    ELSE IF op.op_type = "w" THEN prev_op.tr # op.tr /\ prev_op.op_type = "w"
    ELSE FALSE

ConflictsCocsr(prev_op, op) ==
    IF op.op_type = "r" THEN prev_op.op_type = "w"
    ELSE IF op.op_type = "w" THEN prev_op.tr # op.tr
    ELSE FALSE

\* a variant whose write branch does not look at the type of prev_op
ConflictsXcsr_AnyEarlierOp(prev_op, op) ==
    IF op.op_type = "r" THEN prev_op.tr # op.tr /\ prev_op.op_type = "w"
    ELSE IF op.op_type = "w" THEN prev_op.tr # op.tr
    ELSE FALSE

ConflictsXcsr(prev_op, op) ==
    IF op.op_type = "r" THEN prev_op.tr # op.tr /\ prev_op.op_type = "w"
    ELSE IF op.op_type = "w" THEN prev_op.tr # op.tr /\ prev_op.op_type \in {"r", "w"}
    ELSE FALSE

Conflicts(p, prev_op, op) ==
    CASE p = "csr" -> ConflictsCsr(prev_op, op)
      [] p = "cocsr" -> ConflictsCocsr(prev_op, op)
      [] p = "xcsr" -> ConflictsXcsr(prev_op, op)

\* The key every edge is added with: (prev_op.tr, op.tr, 0, {'label': ...})
EdgeKey == 0

\* MultiDiGraph.add_edge(u, v, key) with the label as data: the edge (u, v, key)
\* is created, or, when it exists already, its data is updated.
add_edge(E, u, v, key, label) ==
    {e \in E : ~(e.u = u /\ e.v = v /\ e.key = key)}
    \cup {[u |-> u, v |-> v, key |-> key, label |-> label]}

\* The list handed to add_edges_from for the operation at index i of ops.  The
\* label f'{prev_op}->{op}' is kept as the pair of operations it prints.
edge_bunch_Reversed(p, ops, i) ==
    LET prevs == SelectSeq(SubSeq(ops, 1, i - 1), LAMBDA q : Conflicts(p, q, ops[i]))
    IN [k \in 1..Len(prevs) |->
           [u |-> ops[i].tr, v |-> prevs[k].tr, key |-> EdgeKey,
            label |-> <<prevs[k], ops[i]>>]]

edge_bunch(p, ops, i) ==
    LET prevs == SelectSeq(SubSeq(ops, 1, i - 1), LAMBDA q : Conflicts(p, q, ops[i]))
    IN [k \in 1..Len(prevs) |->
           [u |-> prevs[k].tr, v |-> ops[i].tr, key |-> EdgeKey,
            label |-> <<prevs[k], ops[i]>>]]

RECURSIVE add_edges_from(_, _)
add_edges_from(E, bunch) ==
    IF bunch = <<>> THEN E
    ELSE add_edges_from(
             add_edge(E, bunch[1].u, bunch[1].v, bunch[1].key, bunch[1].label),
             Tail(bunch))

\* for i, op in enumerate(ops): ...
RECURSIVE edges_of_ops(_, _, _, _)
edges_of_ops(p, E, ops, i) ==
    IF i > Len(ops) THEN E
    ELSE edges_of_ops(p, add_edges_from(E, edge_bunch(p, ops, i)), ops, i + 1)

\* for var, ops in variable_transactions.items(): ...
RECURSIVE edges_of_vars(_, _, _, _)
edges_of_vars(p, E, sch, keys) ==
    IF keys = <<>> THEN E
    ELSE edges_of_vars(p, edges_of_ops(p, E, variable_ops(sch, keys[1]), 1), sch, Tail(keys))

build_conflict_graph(p, sch) ==
    [nodes |-> graph_nodes(sch),
     edges |-> edges_of_vars(p, {}, sch, variable_keys(sch))]

EmptyGraph == [nodes |-> <<>>, edges |-> {}]

HasEdge(g, u, v) == \E e \in g.edges : e.u = u /\ e.v = v

(***************************************************************************)
(* networkx.is_directed_acyclic_graph: nodes without a predecessor among   *)
(* the remaining nodes are removed until none is left (acyclic) or none    *)
(* can be removed (a cycle, a self-loop included).                         *)
(***************************************************************************)
RECURSIVE Reduces(_, _)
Reduces(N, E) ==
    IF N = {} THEN TRUE
    ELSE LET Z == {n \in N : \A e \in E : ~(e.v = n /\ e.u \in N)}
         IN IF Z = {} THEN FALSE ELSE Reduces(N \ Z, E)

is_directed_acyclic_graph(g) == Reduces(Range(g.nodes), g.edges)

(***************************************************************************)
(* get_equivalent_histories: the list of networkx.all_topological_sorts.   *)
(* At each position every node whose predecessors are all placed already   *)
(* is chosen in turn and the search goes on below it.                      *)
(***************************************************************************)
RECURSIVE topological_sorts_from(_, _), topological_branches(_, _, _)
topological_sorts_from(g, current_sort) ==
    IF Len(current_sort) = Len(g.nodes) THEN <<current_sort>>
    ELSE LET placed == Range(current_sort)
             D == SelectSeq(g.nodes,
                      LAMBDA n : n \notin placed
                                 /\ \A e \in g.edges : e.v = n => e.u \in placed)
         IN topological_branches(g, current_sort, D)

topological_branches(g, current_sort, D) ==
    IF D = <<>> THEN <<>>
    ELSE topological_sorts_from(g, Append(current_sort, D[1]))
         \o topological_branches(g, current_sort, Tail(D))

all_topological_sorts(g) == topological_sorts_from(g, <<>>)

get_equivalent_histories(g) == all_topological_sorts(g)

(***************************************************************************)
(* is_in_ocsr.                                                             *)
(***************************************************************************)
\* a variant that keeps one entry per transaction
first_ops_key_TransactionOnly(op) == <<"rw", op.tr>>

\* the key of unique_everseen: one entry per transaction for its commits and
\* one for its other operations
first_ops_key(op) ==
    IF op.op_type = "c" THEN <<"c", op.tr>> ELSE <<"rw", op.tr>>

\* unique_everseen(h, key): the elements of h whose key no earlier element has
RECURSIVE unique_everseen(_)
unique_everseen(h) ==
    IF h = <<>> THEN <<>>
    ELSE LET r == unique_everseen(SubSeq(h, 1, Len(h) - 1))
             l == h[Len(h)]
         IN IF first_ops_key(l) \in {first_ops_key(r[i]) : i \in DOMAIN r}
            THEN r ELSE Append(r, l)

\* deps: for each commit of first_ops, the transactions of the non-commit
\* entries after it, kept only when there are any
ocsr_deps(first_ops) ==
    LET after(i) ==
            LET rest == SelectSeq(SubSeq(first_ops, i + 1, Len(first_ops)),
                                  LAMBDA op : op.op_type # "c")
            IN [k \in 1..Len(rest) |-> rest[k].tr]
        commits == {i \in 1..Len(first_ops) :
                       first_ops[i].op_type = "c" /\ after(i) # <<>>}
    IN [t \in {first_ops[i].tr : i \in commits} |->
           after(CHOOSE i \in commits : first_ops[i].tr = t)]

\* a variant that looks for the dependencies before the transaction: eq_h[:i]
ocsr_order_ok_Before(deps, eq_h) ==
    \A i \in 1..Len(eq_h) :
        eq_h[i] \in DOMAIN deps
            => Range(deps[eq_h[i]]) \subseteq Range(SubSeq(eq_h, 1, i - 1))

\* the inner for ... else: no transaction of eq_h breaks
ocsr_order_ok(deps, eq_h) ==
    \A i \in 1..Len(eq_h) :
        eq_h[i] \in DOMAIN deps
            => Range(deps[eq_h[i]]) \subseteq Range(SubSeq(eq_h, i + 1, Len(eq_h)))

is_in_ocsr(h, eqs) ==
    LET deps == ocsr_deps(unique_everseen(h))
    IN \E k \in 1..Len(eqs) : ocsr_order_ok(deps, eqs[k])

(***************************************************************************)
(* is_in_cocsr.                                                            *)
(***************************************************************************)
\* a variant that takes the transactions in order of their first operation
commit_order_FirstSeen(h) == InsertionOrder([i \in 1..Len(h) |-> h[i].tr])

commit_order(h) ==
    LET cs == SelectSeq(h, LAMBDA op : op.op_type = "c")
    IN [k \in 1..Len(cs) |-> cs[k].tr]

\* a variant that compares the committed transactions as a set
is_in_cocsr_AnyOrder(h, eqs) ==
    \E k \in 1..Len(eqs) : Range(eqs[k]) = Range(commit_order(h))

is_in_cocsr(h, eqs) == \E k \in 1..Len(eqs) : eqs[k] = commit_order(h)

(***************************************************************************)
(* build_expanded_schedule (xcsr.py).                                      *)
(***************************************************************************)
\* prev_op.reverted_op() for prev_op in sch[i::-1] if prev_op.tr == op.tr and
\* prev_op.op_type == 'w', with j the index the backwards scan has reached
\* a variant that scans the prefix forwards: sch[:i + 1]
RECURSIVE reverted_writes_OldestFirst(_, _, _)
reverted_writes_OldestFirst(sch, j, tr) ==
    IF j = 0 THEN <<>>
    ELSE reverted_writes_OldestFirst(sch, j - 1, tr)
         \o (IF sch[j].tr = tr /\ sch[j].op_type = "w"
             THEN <<reverted_op(sch[j])>> ELSE <<>>)

RECURSIVE reverted_writes(_, _, _)
reverted_writes(sch, j, tr) ==
    IF j = 0 THEN <<>>
    ELSE (IF sch[j].tr = tr /\ sch[j].op_type = "w"
          THEN <<reverted_op(sch[j])>> ELSE <<>>)
         \o reverted_writes(sch, j - 1, tr)

\* a variant that copies reads and writes only and expands a commit like an abort
RECURSIVE expand_from_CommitAsAbort(_, _, _)
expand_from_CommitAsAbort(sch, i, expanded_sch) ==
    IF i > Len(sch) THEN expanded_sch
    ELSE IF sch[i].op_type \in {"r", "w"}
         THEN expand_from_CommitAsAbort(sch, i + 1, Append(expanded_sch, sch[i]))
         ELSE expand_from_CommitAsAbort(sch, i + 1,
                  Append(expanded_sch \o reverted_writes(sch, i, sch[i].tr),
                         Op("c", sch[i].tr, "")))

RECURSIVE expand_from(_, _, _)
expand_from(sch, i, expanded_sch) ==
    IF i > Len(sch) THEN expanded_sch
    ELSE IF sch[i].op_type # "a"
         THEN expand_from(sch, i + 1, Append(expanded_sch, sch[i]))
         ELSE expand_from(sch, i + 1,
                  Append(expanded_sch \o reverted_writes(sch, i, sch[i].tr),
                         Op("c", sch[i].tr, "")))

\* a variant that removes the operations of the aborted transactions
build_expanded_schedule_DropAborted(sch) ==
    SelectSeq(sch, LAMBDA o : \A i \in DOMAIN sch :
                                 ~(sch[i].op_type = "a" /\ sch[i].tr = o.tr))

build_expanded_schedule(sch) == expand_from(sch, 1, <<>>)

(***************************************************************************)
(* The script of each program.                                             *)
(***************************************************************************)
Init ==
    /\ prog \in Programs
    /\ schedule \in Schedules(prog)
    /\ pc = "start"
    /\ dg = EmptyGraph
    /\ eq = <<>>
    /\ exp_s = <<>>
    /\ exp_dg = EmptyGraph
    /\ out = <<>>
    /\ hs = <<>>
    /\ transactions = <<>>

\* a transaction of sch has an operation after its commit or abort (a second
\* commit or abort included)
Malformed(sch) ==
    \E i, j \in DOMAIN sch :
        i < j /\ sch[i].op_type \in {"c", "a"} /\ sch[j].tr = sch[i].tr

\* a variant that refuses such a schedule before building the graph
BuildGraph_RejectMalformed ==
    /\ pc = "start"
    /\ IF Malformed(schedule)
       THEN /\ out' = out \o <<"MalformedScheduleError">>
            /\ dg' = dg
            /\ pc' = "done"
       ELSE /\ out' = out
            /\ dg' = build_conflict_graph(prog, schedule)
            /\ pc' = "graph"
    /\ UNCHANGED <<hs, transactions, prog, schedule, eq, exp_s, exp_dg>>

\* dg = build_conflict_graph(schedule)
BuildGraph ==
    /\ pc = "start"
    /\ dg' = build_conflict_graph(prog, schedule)
    /\ pc' = "graph"
    /\ UNCHANGED <<hs, transactions, prog, schedule, eq, exp_s, exp_dg, out>>

\* csr.py: the verdict and the topological orders (the drawing is left out)
CsrReport ==
    /\ prog = "csr"
    /\ pc = "graph"
    /\ IF is_directed_acyclic_graph(dg)
       THEN /\ out' = out \o <<"H in CSR", "Topological order">>
            /\ eq' = all_topological_sorts(dg)
       ELSE /\ out' = out \o <<"H not in CSR">>
            /\ eq' = eq
    /\ pc' = "done"
    /\ UNCHANGED <<hs, transactions, prog, schedule, dg, exp_s, exp_dg>>

\* csr-ocsr-cocsr.py: the CSR verdict and the equivalent histories
CocsrReportCSR ==
    /\ prog = "cocsr"
    /\ pc = "graph"
    /\ IF is_directed_acyclic_graph(dg)
       THEN /\ out' = out \o <<"H in CSR", "Equivalent histories">>
            /\ eq' = get_equivalent_histories(dg)
            /\ pc' = "csr"
       ELSE /\ out' = out \o <<"H not in CSR", "Not in OCSR", "Not in COCSR">>
            /\ eq' = eq
            /\ pc' = "done"
    /\ UNCHANGED <<hs, transactions, prog, schedule, dg, exp_s, exp_dg>>

\* a variant that goes on to the COCSR test whatever the OCSR verdict is
CocsrReportOCSR_Independent ==
    /\ prog = "cocsr"
    /\ pc = "csr"
    /\ out' = out \o <<IF is_in_ocsr(schedule, eq) THEN "In OCSR" ELSE "Not in OCSR">>
    /\ pc' = "ocsr"
    /\ UNCHANGED <<hs, transactions, prog, schedule, dg, eq, exp_s, exp_dg>>

\* csr-ocsr-cocsr.py: the OCSR verdict
CocsrReportOCSR ==
    /\ prog = "cocsr"
    /\ pc = "csr"
    /\ IF is_in_ocsr(schedule, eq)
       THEN /\ out' = out \o <<"In OCSR">>
            /\ pc' = "ocsr"
       ELSE /\ out' = out \o <<"Not in OCSR", "Not in COCSR">>
            /\ pc' = "done"
    /\ UNCHANGED <<hs, transactions, prog, schedule, dg, eq, exp_s, exp_dg>>

\* csr-ocsr-cocsr.py: the COCSR verdict
CocsrReportCOCSR ==
    /\ prog = "cocsr"
    /\ pc = "ocsr"
    /\ out' = out \o <<IF is_in_cocsr(schedule, eq) THEN "In COCSR" ELSE "Not in COCSR">>
    /\ pc' = "done"
    /\ UNCHANGED <<hs, transactions, prog, schedule, dg, eq, exp_s, exp_dg>>

\* xcsr.py: the CSR verdict and the expanded schedule
XcsrReportCSR ==
    /\ prog = "xcsr"
    /\ pc = "graph"
    /\ IF is_directed_acyclic_graph(dg)
       THEN /\ exp_s' = build_expanded_schedule(schedule)
            /\ out' = out \o <<"H in CSR">>
            /\ pc' = "expanded"
       ELSE /\ exp_s' = exp_s
            /\ out' = out \o <<"H not in CSR">>
            /\ pc' = "done"
    /\ UNCHANGED <<hs, transactions, prog, schedule, dg, eq, exp_dg>>

\* a variant that builds the second graph from the schedule as parsed
XcsrReportXCSR_UnexpandedGraph ==
    /\ prog = "xcsr"
    /\ pc = "expanded"
    /\ exp_dg' = build_conflict_graph(prog, schedule)
    /\ out' = out \o <<IF is_directed_acyclic_graph(exp_dg')
                       THEN "H is in XCSR!" ELSE "H not in XCSR!">>
    /\ pc' = "done"
    /\ UNCHANGED <<hs, transactions, prog, schedule, dg, eq, exp_s>>

\* xcsr.py: the XCSR verdict, from the conflict graph of the expanded schedule
XcsrReportXCSR ==
    /\ prog = "xcsr"
    /\ pc = "expanded"
    /\ exp_dg' = build_conflict_graph(prog, exp_s)
    /\ out' = out \o <<IF is_directed_acyclic_graph(exp_dg')
                       THEN "H is in XCSR!" ELSE "H not in XCSR!">>
    /\ pc' = "done"
    /\ UNCHANGED <<hs, transactions, prog, schedule, dg, eq, exp_s>>

Next ==
    \/ BuildGraph
    \/ CsrReport
    \/ CocsrReportCSR
    \/ CocsrReportOCSR
    \/ CocsrReportCOCSR
    \/ XcsrReportCSR
    \/ XcsrReportXCSR

Spec == Init /\ [][Next]_vars

Printed(line) == line \in Range(out)

(***************************************************************************)
(* herbrand_semantics.py.                                                  *)
(***************************************************************************)
\* Op and F of herbrand_semantics.py
HOp(op_type, tr, variable) == [op_type |-> op_type, tr |-> tr, variable |-> variable]
F(tr, variable, elements) == [tr |-> tr, variable |-> variable, elements |-> elements]

\* the pattern knows reads and writes, each with its variable
HerbrandTokens == {HOp(k, t, v) : k \in {"r", "w"}, t \in Trs, v \in Vars}

\* the schedule of the module docstring
HerbrandExample ==
    <<HOp("w", 0, "x"), HOp("w", 0, "y"), HOp("r", 1, "x"), HOp("r", 2, "y"),
      HOp("w", 2, "x"), HOp("w", 1, "y")>>
\* transaction 1 reads x before and after the write of 2, then writes y
RepeatedRead == <<HOp("r", 1, "x"), HOp("w", 2, "x"), HOp("r", 1, "x"), HOp("w", 1, "y")>>

HerbrandSchedules ==
    UNION {[1..n -> HerbrandTokens] : n \in 0..MaxLen} \cup {HerbrandExample, RepeatedRead}

\* A dict is kept as the list of its (key, value) items in insertion order.
\* d.get(key), for a key that is in d
dict_get(d, key) == d[CHOOSE k \in DOMAIN d : d[k][1] = key][2]

\* d[key] = value: the value of an existing key is replaced in place
dict_set(d, key, value) ==
    IF \E k \in DOMAIN d : d[k][1] = key
    THEN [k \in DOMAIN d |-> IF d[k][1] = key THEN <<key, value>> ELSE d[k]]
    ELSE Append(d, <<key, value>>)

get_read_herbrand_semantic(variable, previous_ops, d) ==
    LET writes == {k \in DOMAIN previous_ops :
                      previous_ops[k].op_type = "w" /\ previous_ops[k].variable = variable}
    IN IF writes # {}
       THEN dict_get(d, previous_ops[CHOOSE k \in writes : \A m \in writes : m <= k])
       ELSE F(0, variable, <<>>)

get_write_herbrand_semantic(op, previous_ops, d) ==
    LET reads == SelectSeq(previous_ops, LAMBDA q : q.tr = op.tr /\ q.op_type = "r")
    IN F(op.tr, op.variable, [k \in 1..Len(reads) |-> dict_get(d, reads[k])])

get_el_herbrand_semantic(op, previous_ops, d) ==
    IF op.op_type = "r" THEN get_read_herbrand_semantic(op.variable, previous_ops, d)
    ELSE get_write_herbrand_semantic(op, previous_ops, d)

\* for i, op in enumerate(s): hs[op] = ...
RECURSIVE herbrand_loop(_, _, _)
herbrand_loop(s, i, d) ==
    IF i > Len(s) THEN d
    ELSE herbrand_loop(s, i + 1,
             dict_set(d, s[i], get_el_herbrand_semantic(s[i], SubSeq(s, 1, i - 1), d)))

compute_herbrand_semantics(s) == herbrand_loop(s, 1, <<>>)

InitHerbrand ==
    /\ prog = "herbrand"
    /\ schedule \in HerbrandSchedules
    /\ pc = "start"
    /\ dg = EmptyGraph
    /\ eq = <<>>
    /\ exp_s = <<>>
    /\ exp_dg = EmptyGraph
    /\ out = <<>>
    /\ hs = <<>>
    /\ transactions = <<>>

\* print(f's={schedule}'), then compute_herbrand_semantics(schedule)
HerbrandCompute ==
    /\ prog = "herbrand"
    /\ pc = "start"
    /\ out' = <<<<"s", schedule>>>>
    /\ hs' = compute_herbrand_semantics(schedule)
    /\ pc' = "computed"
    /\ UNCHANGED <<transactions, prog, schedule, dg, eq, exp_s, exp_dg>>

\* for el, sem in ....items(): print(f'Hs[{el}]={sem}')
HerbrandPrint ==
    /\ prog = "herbrand"
    /\ pc = "computed"
    /\ out' = out \o [k \in DOMAIN hs |-> <<"Hs", hs[k][1], hs[k][2]>>]
    /\ pc' = "done"
    /\ UNCHANGED <<hs, transactions, prog, schedule, dg, eq, exp_s, exp_dg>>

NextHerbrand ==
    \/ HerbrandCompute
    \/ HerbrandPrint

SpecHerbrand == InitHerbrand /\ [][NextHerbrand]_vars

(***************************************************************************)
(* shuffle_transactions.py.                                                *)
(***************************************************************************)
\* at most this many operations in all the transactions of one run together
MaxOps == 5
OpTypes == {"r", "w"}
ShuffleVars == {"a"}
TransactionIndexes == {0, 1, 2}

\* op of shuffle_transactions.py; tr is the tag f't{trans_idx}'
ShuffleOp(variable, op_type, tr) == [variable |-> variable, op_type |-> op_type, tr |-> tr]
Tag(trans_idx) == <<"t", trans_idx>>

\* the operations get_transaction_fom_string gives transaction trans_idx
TaggedOps(trans_idx) == {ShuffleOp(v, k, Tag(trans_idx)) : v \in ShuffleVars, k \in OpTypes}
TransactionsOf(trans_idx, room) == UNION {[1..n -> TaggedOps(trans_idx)] : n \in 0..room}

RECURSIVE SumOfLengths(_)
SumOfLengths(ts) == IF ts = <<>> THEN 0 ELSE Len(Head(ts)) + SumOfLengths(Tail(ts))

\* the lists of n transactions, numbered from 0 in the order of the -t arguments
RECURSIVE TransactionListsOf(_)
TransactionListsOf(n) ==
    IF n = 0 THEN {<<>>}
    ELSE UNION {{Append(ts, t) : t \in TransactionsOf(n - 1, MaxOps - SumOfLengths(ts))} :
                ts \in TransactionListsOf(n - 1)}

\* the lists of transactions the script parses from its -t arguments
TransactionLists == UNION {TransactionListsOf(n) : n \in 1..Cardinality(TransactionIndexes)}

\* (tr[1:] if tr == trans else trans for trans in unshufled_transactions),
\* with the tags left out of the comparison
advance_IgnoringTag(tr, unshufled_transactions) ==
    LET shape(t) == [k \in DOMAIN t |-> <<t[k].variable, t[k].op_type>>]
    IN <<>> \o [k \in DOMAIN unshufled_transactions |->
                   IF shape(tr) = shape(unshufled_transactions[k])
                   THEN Tail(tr) ELSE unshufled_transactions[k]]

\* (tr[1:] if tr == trans else trans for trans in unshufled_transactions):
\* every transaction equal in value to the chosen one loses its first
\* operation (the concatenation makes the result a tuple of the new lists)
advance(tr, unshufled_transactions) ==
    <<>> \o [k \in DOMAIN unshufled_transactions |->
                IF tr = unshufled_transactions[k] THEN Tail(tr)
                ELSE unshufled_transactions[k]]

RECURSIVE shuffle_transactions(_, _)
RECURSIVE shuffle_branches(_, _, _)
\* the for loop from its k-th transaction on
shuffle_branches(shuffled_transaction, unshufled_transactions, k) ==
    IF k > Len(unshufled_transactions) THEN <<>>
    ELSE LET tr == unshufled_transactions[k]
         IN (IF tr # <<>>
             THEN shuffle_transactions(Append(shuffled_transaction, Head(tr)),
                                       advance(tr, unshufled_transactions))
             ELSE <<>>)
            \o shuffle_branches(shuffled_transaction, unshufled_transactions, k + 1)

\* the histories the generator yields, in order
shuffle_transactions(shuffled_transaction, unshufled_transactions) ==
    shuffle_branches(shuffled_transaction, unshufled_transactions, 1)
    \o (IF \A k \in DOMAIN unshufled_transactions : unshufled_transactions[k] = <<>>
        THEN <<shuffled_transaction>> ELSE <<>>)

\* enumerate(iterable, start) of Python: the items numbered from start
enumerate(iterable, start) ==
    [i \in 1..Len(iterable) |-> <<start + i - 1, iterable[i]>>]

InitShuffle ==
    /\ prog = "shuffle"
    /\ transactions \in TransactionLists
    /\ schedule = <<>>
    /\ pc = "start"
    /\ dg = EmptyGraph
    /\ eq = <<>>
    /\ exp_s = <<>>
    /\ exp_dg = EmptyGraph
    /\ out = <<>>
    /\ hs = <<>>

\* for (i, shuffled_transaction) in enumerate(shuffle_transactions([], *transactions), 1): print
ShuffleRun ==
    /\ prog = "shuffle"
    /\ pc = "start"
    /\ out' = enumerate(shuffle_transactions(<<>>, transactions), 1)
    /\ pc' = "done"
    /\ UNCHANGED <<hs, transactions, prog, schedule, dg, eq, exp_s, exp_dg>>

NextShuffle == ShuffleRun

SpecShuffle == InitShuffle /\ [][NextShuffle]_vars

(***************************************************************************)
(* Properties.                                                             *)
(***************************************************************************)

\* C1, as stated: for w0(x) w0(y) r1(x) r2(y) w2(x) w1(y) c0 c1 c2 the conflict
\* graph is acyclic, the schedule is reported CSR and [0,1,2] is among the
\* equivalent serial orders.
C1_Scenario1ReportedCSR ==
    (prog = "cocsr" /\ schedule = Scenario1 /\ pc = "done")
        => /\ is_directed_acyclic_graph(dg)
           /\ Printed("H in CSR")
           /\ <<0, 1, 2>> \in Range(eq)

\* C1, amended: for that schedule the conflict graph holds the edges 1->2
\* (r1(x) before w2(x)) and 2->1 (r2(y) before w1(y)), so it is cyclic; the
\* schedule is reported not CSR, not OCSR and not COCSR, and no equivalent
\* serial order is enumerated.
C1_Scenario1NotCSR ==
    (prog = "cocsr" /\ schedule = Scenario1 /\ pc # "start")
        => /\ {<<e.u, e.v>> : e \in dg.edges}
                = {<<0, 1>>, <<0, 2>>, <<1, 2>>, <<2, 1>>}
           /\ ~is_directed_acyclic_graph(dg)
           /\ pc = "done"
                => /\ out = <<"H not in CSR", "Not in OCSR", "Not in COCSR">>
                   /\ eq = <<>>

C1_Witness == prog = "cocsr" /\ schedule = Scenario1 /\ pc = "done"

\* C2, as stated: for r1(x) w2(x) r1(y) w2(y) the conflict graph holds an edge
\* 1->2 and an edge 2->1, and the schedule is reported not CSR.
C2_Scenario2TwoCycle ==
    (prog \in {"csr", "cocsr"} /\ schedule = Scenario2 /\ pc # "start")
        => /\ HasEdge(dg, 1, 2)
           /\ HasEdge(dg, 2, 1)
           /\ pc = "done" => Printed("H not in CSR")

\* C2, amended: for that schedule every edge of the conflict graph goes from
\* 1 to 2 (both reads of 1 precede the writes of 2), there is no edge 2->1,
\* the schedule is reported CSR and [1,2] is its only equivalent serial order.
C2_Scenario2IsCSR ==
    (prog \in {"csr", "cocsr"} /\ schedule = Scenario2 /\ pc # "start")
        => /\ HasEdge(dg, 1, 2)
           /\ \A e \in dg.edges : e.u = 1 /\ e.v = 2
           /\ pc = "done"
                => /\ Printed("H in CSR")
                   /\ ~Printed("H not in CSR")
                   /\ eq = << <<1, 2>> >>

C2_Witness == prog \in {"csr", "cocsr"} /\ schedule = Scenario2 /\ pc = "done"

\* C3: in csr.py and csr-ocsr-cocsr.py no edge of the conflict graph is a
\* self-loop, also when a transaction reads a variable it wrote earlier, and
\* a schedule of a single transaction is reported CSR.
C3_NoSelfLoop ==
    (prog \in {"csr", "cocsr"} /\ pc # "start")
        => /\ \A e \in dg.edges : e.u # e.v
           /\ (Cardinality(Range(graph_nodes(schedule))) = 1 /\ pc = "done")
                => Printed("H in CSR")
(***************************************************************************)
(* Notions the properties below are stated with, defined on the schedule   *)
(* itself and not through the operators above.                             *)
(***************************************************************************)
TrsOf(sch) == {sch[i].tr : i \in DOMAIN sch}

\* positions i < j hold reads/writes of different transactions on the same
\* variable, at least one of them a write
ConflictingPositions(sch, i, j) ==
    /\ i < j
    /\ sch[i].op_type \in {"r", "w"}
    /\ sch[j].op_type \in {"r", "w"}
    /\ sch[i].variable = sch[j].variable
    /\ sch[i].tr # sch[j].tr
    /\ "w" \in {sch[i].op_type, sch[j].op_type}

ConflictRelation(sch) ==
    {<<sch[i].tr, sch[j].tr>> : <<i, j>> \in
        {q \in (DOMAIN sch) \X (DOMAIN sch) : ConflictingPositions(sch, q[1], q[2])}}

EdgeRelation(g) == {<<e.u, e.v>> : e \in g.edges}

\* a closed walk along the edges of g
Cyclic(g) ==
    LET N == Range(g.nodes)
    IN \E n \in 1..Cardinality(N) : \E f \in [1..n -> N] :
           /\ \A k \in 1..(n - 1) : <<f[k], f[k + 1]>> \in EdgeRelation(g)
           /\ <<f[n], f[1]>> \in EdgeRelation(g)

Position(s, t) == CHOOSE k \in DOMAIN s : s[k] = t

\* the permutations of the transactions S that respect every pair of rel
LinearExtensions(S, rel) ==
    {f \in [1..Cardinality(S) -> S] :
        /\ \A a, b \in DOMAIN f : a # b => f[a] # f[b]
        /\ \A r \in rel : Position(f, r[1]) < Position(f, r[2])}

\* C4: in xcsr.py the conflict graph has an edge u->v exactly when positions
\* i < j of the schedule hold reads/writes on the same variable, of u at i and
\* of v at j, u # v, at least one a write; this holds for the parsed schedule
\* and for the expanded one, whose compensating writes count as writes.
C4_XcsrEdgesAreConflicts ==
    prog = "xcsr"
        => /\ pc # "start" => EdgeRelation(dg) = ConflictRelation(schedule)
           /\ (pc = "done" /\ Printed("H in CSR"))
                => EdgeRelation(exp_dg) = ConflictRelation(exp_s)

\* a read-read pair, a commit and an abort are in the schedule, and an edge
\* comes from a compensating write
C4_Witness ==
    /\ prog = "xcsr"
    /\ pc = "done"
    /\ \E i, j \in DOMAIN schedule :
           /\ i < j
           /\ schedule[i].op_type = "r" /\ schedule[j].op_type = "r"
           /\ schedule[i].variable = schedule[j].variable
           /\ schedule[i].tr # schedule[j].tr
    /\ \E i, j \in DOMAIN schedule :
           schedule[i].op_type = "c" /\ schedule[j].op_type = "a"
    /\ \E e \in exp_dg.edges : e.label[2].revert

\* the conflicting pairs (prev, op) the program adds an edge for, by position
ConflictingPairs(p, sch) ==
    {q \in (DOMAIN sch) \X (DOMAIN sch) :
        /\ q[1] < q[2]
        /\ sch[q[1]].variable = sch[q[2]].variable
        /\ Conflicts(p, sch[q[1]], sch[q[2]])}

\* C5: every conflicting pair (prev, op) has its own edge prev.tr->op.tr with
\* the label of that pair: k conflicting pairs between the same ordered pair
\* of transactions make k edges between them.
C5_OneEdgePerConflictingPair ==
    (prog \in {"cocsr", "xcsr"} /\ pc # "start")
        => LET pairs == ConflictingPairs(prog, schedule)
           IN /\ \A q \in pairs : \E e \in dg.edges :
                     /\ e.u = schedule[q[1]].tr
                     /\ e.v = schedule[q[2]].tr
                     /\ e.label = <<schedule[q[1]], schedule[q[2]]>>
              /\ \A u, v \in TrsOf(schedule) :
                     Cardinality({e \in dg.edges : e.u = u /\ e.v = v})
                         = Cardinality({q \in pairs : /\ schedule[q[1]].tr = u
                                                      /\ schedule[q[2]].tr = v})

\* C6: for an acyclic conflict graph the enumerated serial orders are exactly
\* the permutations of all transactions of the schedule that place u before v
\* for every edge u->v, each once.
C6_AllLinearExtensions ==
    (prog \in {"csr", "cocsr"} /\ Printed("H in CSR"))
        => LET exts == LinearExtensions(TrsOf(schedule), EdgeRelation(dg))
           IN /\ Range(eq) = exts
              /\ Len(eq) = Cardinality(exts)

\* a transaction with only a commit, an edge, and several orders
C6_Witness ==
    /\ prog = "cocsr"
    /\ Printed("H in CSR")
    /\ Len(eq) > 1
    /\ dg.edges # {}
    /\ \E t \in TrsOf(schedule) :
           \A i \in DOMAIN schedule : schedule[i].tr = t => schedule[i].op_type = "c"

\* the compensating writes of the abort at position k: one for every write
\* of the aborting transaction in schedule[1..k], the most recent first
CompensatingWrites(sch, k) ==
    LET ws == SelectSeq(SubSeq(sch, 1, k),
                        LAMBDA o : o.op_type = "w" /\ o.tr = sch[k].tr)
    IN [m \in 1..Len(ws) |-> [ws[Len(ws) + 1 - m] EXCEPT !.revert = TRUE]]

RECURSIVE ExpansionUpTo(_, _)
ExpansionUpTo(sch, k) ==
    IF k = 0 THEN <<>>
    ELSE ExpansionUpTo(sch, k - 1)
         \o (IF sch[k].op_type # "a" THEN <<sch[k]>>
             ELSE CompensatingWrites(sch, k) \o <<C(sch[k].tr)>>)

\* C7: the expanded schedule has no abort; every other operation is copied
\* in place, every abort of t at k is replaced by the compensating writes of
\* the writes of t in schedule[0..k], most recent first, then a commit of t;
\* w1(x) a1 w2(x) c2 becomes w1(x) w1^-1(x) c1 w2(x) c2.
C7_ExpansionAsDescribed ==
    prog = "xcsr"
        => LET e == build_expanded_schedule(schedule)
           IN /\ e = ExpansionUpTo(schedule, Len(schedule))
              /\ \A i \in DOMAIN e : e[i].op_type # "a"
              /\ (pc \in {"expanded", "done"} /\ Printed("H in CSR")) => exp_s = e
              /\ schedule = Scenario3
                   => e = <<W(1, "x"), reverted_op(W(1, "x")), C(1), W(2, "x"), C(2)>>

\* an abort of a transaction with two writes has been expanded
C7_Witness ==
    /\ prog = "xcsr"
    /\ pc = "done"
    /\ \E k \in DOMAIN schedule :
           /\ schedule[k].op_type = "a"
           /\ Len(CompensatingWrites(schedule, k)) = 2
    /\ Len(exp_s) > Len(schedule)

\* C8: xcsr.py reports XCSR exactly when the conflict graph of the schedule
\* and the conflict graph of its expansion are both acyclic; when the first
\* has a cycle it reports not CSR and gives no XCSR verdict.
C8_XcsrVerdict ==
    (prog = "xcsr" /\ pc = "done")
        => LET g == build_conflict_graph("xcsr", schedule)
               xg == build_conflict_graph("xcsr", build_expanded_schedule(schedule))
           IN /\ Printed("H is in XCSR!") <=> (~Cyclic(g) /\ ~Cyclic(xg))
              /\ Cyclic(g) => out = <<"H not in CSR">>
              /\ (~Cyclic(g) /\ Cyclic(xg)) => out = <<"H in CSR", "H not in XCSR!">>

\* a schedule in CSR whose expansion has a cycle
C8_Witness ==
    /\ prog = "xcsr"
    /\ pc = "done"
    /\ Printed("H in CSR")
    /\ Printed("H not in XCSR!")

NoAbort(sch) == \A i \in DOMAIN sch : sch[i].op_type # "a"

\* C9: for a schedule without abort the expansion is the schedule itself and
\* xcsr.py reports XCSR exactly when it reports CSR.
C9_NoAbortIdentity ==
    (prog = "xcsr" /\ NoAbort(schedule))
        => /\ build_expanded_schedule(schedule) = schedule
           /\ (pc \in {"expanded", "done"} /\ Printed("H in CSR")) => exp_s = schedule
           /\ pc = "done"
                => /\ Printed("H is in XCSR!") <=> Printed("H in CSR")
                   /\ Printed("H is in XCSR!") <=> ~Cyclic(dg)
                   /\ ~Printed("H not in XCSR!")

\* a schedule without abort, with a commit and a conflict, reported XCSR
C9_Witness ==
    /\ prog = "xcsr"
    /\ pc = "done"
    /\ NoAbort(schedule)
    /\ \E i \in DOMAIN schedule : schedule[i].op_type = "c"
    /\ dg.edges # {}
    /\ Printed("H is in XCSR!")

\* transaction i commits in h and the first read/write of j comes after it
StartsAfterCommit(h, i, j) ==
    LET commits == {k \in DOMAIN h : h[k].op_type = "c" /\ h[k].tr = i}
        rws == {k \in DOMAIN h : h[k].op_type # "c" /\ h[k].tr = j}
    IN /\ commits # {}
       /\ rws # {}
       /\ \E c \in commits : \A k \in rws : c < k

OrderPreserving(h, s) ==
    \A i, j \in TrsOf(h) :
        StartsAfterCommit(h, i, j) => Position(s, i) < Position(s, j)

\* C10: is_in_ocsr(h, eq) is true exactly when some serial order of eq places
\* every transaction whose first read/write comes after the commit of a
\* transaction i strictly after i.
C10_OcsrIffOrderPreserving ==
    (prog = "cocsr" /\ pc \in {"ocsr", "done"} /\ Printed("H in CSR"))
        => /\ Printed("In OCSR") <=> \E k \in DOMAIN eq : OrderPreserving(schedule, eq[k])
           /\ Printed("In OCSR") <=> is_in_ocsr(schedule, eq)
           /\ Printed("Not in OCSR") <=> ~is_in_ocsr(schedule, eq)

\* a schedule in CSR, of three transactions that each end with their commit,
\* which no equivalent serial order keeps in real-time order
C10_Witness ==
    /\ prog = "cocsr"
    /\ pc = "done"
    /\ Printed("H in CSR")
    /\ Printed("Not in OCSR")
    /\ Cardinality(TrsOf(schedule)) = 3
    /\ \A i, j \in DOMAIN schedule :
           (schedule[i].op_type = "c" /\ schedule[i].tr = schedule[j].tr) => j <= i
\* s lists the transactions of the commits of h in schedule order
IsCommitSequence(h, s) ==
    LET commits == {k \in DOMAIN h : h[k].op_type = "c"}
    IN /\ Len(s) = Cardinality(commits)
       /\ \A k \in commits : s[Cardinality({c \in commits : c <= k})] = h[k].tr

\* the equivalent serial orders have been enumerated
Enumerated == prog = "cocsr" /\ pc \in {"csr", "ocsr", "done"} /\ Printed("H in CSR")

\* C11: is_in_cocsr(h, eq) is true exactly when the transactions of the
\* commits of h, in schedule order, are as a sequence one of the serial
\* orders of eq; a schedule with a transaction that never commits is not in
\* COCSR.
C11_CocsrIffCommitOrder ==
    Enumerated
        => /\ is_in_cocsr(schedule, eq)
                <=> \E k \in DOMAIN eq : IsCommitSequence(schedule, eq[k])
           /\ (\E t \in TrsOf(schedule) :
                   \A i \in DOMAIN schedule :
                       schedule[i].tr = t => schedule[i].op_type # "c")
                => ~is_in_cocsr(schedule, eq)
           /\ (pc = "done" /\ Printed("In OCSR"))
                => /\ Printed("In COCSR") <=> is_in_cocsr(schedule, eq)
                   /\ Printed("Not in COCSR") <=> ~is_in_cocsr(schedule, eq)

\* a schedule with a conflict reported COCSR, its commit order differing from
\* no serial order
C11_Witness ==
    /\ prog = "cocsr"
    /\ pc = "done"
    /\ Printed("In COCSR")
    /\ dg.edges # {}
    /\ Len(commit_order(schedule)) = 2

\* C12: the program never reports COCSR without OCSR, nor OCSR without CSR.
C12_VerdictChain ==
    prog = "cocsr"
        => /\ Printed("In COCSR") => Printed("In OCSR")
           /\ Printed("In OCSR") => Printed("H in CSR")
           /\ Printed("In COCSR") => ~Printed("Not in OCSR")
           /\ Printed("In OCSR") => ~Printed("H not in CSR")

C12_Witness == prog = "cocsr" /\ pc = "done" /\ Printed("In COCSR") /\ Len(eq) > 1
\* the lines the scripts print for a schedule they have analysed
VerdictLines ==
    {"H in CSR", "H not in CSR", "Equivalent histories", "In OCSR", "Not in OCSR",
     "In COCSR", "Not in COCSR", "H is in XCSR!", "H not in XCSR!"}

\* C13, as stated: a schedule in which a transaction has a second commit or
\* abort, or an operation after its commit or abort, is rejected: no conflict
\* graph is built and no verdict is printed for it.
C13_MalformedRejected ==
    (prog \in {"cocsr", "xcsr"} /\ Malformed(schedule))
        => dg = EmptyGraph /\ out = <<>>

\* C13, amended: such a schedule is not rejected.  The programs do not
\* validate the schedule: they build its conflict graph, with all its
\* transactions as nodes, run to the end and print a CSR verdict and the
\* verdicts that follow it, as for any other schedule.
C13_MalformedAnalysed ==
    (prog \in {"cocsr", "xcsr"} /\ Malformed(schedule))
        => /\ pc # "start"
                => /\ Range(dg.nodes) = TrsOf(schedule)
                   /\ EdgeRelation(dg) = {<<schedule[q[1]].tr, schedule[q[2]].tr>> :
                                              q \in ConflictingPairs(prog, schedule)}
           /\ Range(out) \subseteq VerdictLines
           /\ pc = "done"
                => /\ Printed("H in CSR") \/ Printed("H not in CSR")
                   /\ prog = "cocsr"
                        => /\ Printed("In OCSR") \/ Printed("Not in OCSR")
                           /\ Printed("In COCSR") \/ Printed("Not in COCSR")
                   /\ (prog = "xcsr" /\ Printed("H in CSR"))
                        => Printed("H is in XCSR!") \/ Printed("H not in XCSR!")

\* a transaction operates after its commit, and the schedule is reported in
\* CSR, OCSR and COCSR
C13_Witness ==
    /\ prog = "cocsr"
    /\ pc = "done"
    /\ \E i, j \in DOMAIN schedule :
           /\ i < j
           /\ schedule[i].op_type = "c" /\ schedule[j].op_type # "c"
           /\ schedule[i].tr = schedule[j].tr
    /\ Printed("H in CSR")
    /\ Printed("In COCSR")
\* transaction i commits in h before the first operation of transaction j
CommitsBeforeStart(h, i, j) ==
    /\ j \in TrsOf(h)
    /\ \E c \in DOMAIN h :
           /\ h[c].op_type = "c" /\ h[c].tr = i
           /\ \A k \in DOMAIN h : h[k].tr = j => c < k

C17_ExpandedGraphContainsGraph ==
    (prog = "xcsr" /\ pc = "done")
        => LET g == build_conflict_graph("xcsr", schedule)
               xg == build_conflict_graph("xcsr", build_expanded_schedule(schedule))
           IN /\ EdgeRelation(g) \subseteq EdgeRelation(xg)
              /\ Range(g.nodes) = Range(xg.nodes)
              /\ ~Cyclic(xg) => ~Cyclic(g)
              /\ Printed("H is in XCSR!") <=> ~Cyclic(xg)
              /\ Printed("H in CSR") => EdgeRelation(dg) \subseteq EdgeRelation(exp_dg)

\* the expansion of an abort has added an edge to a graph that had one
C17_Witness ==
    /\ prog = "xcsr"
    /\ pc = "done"
    /\ Printed("H in CSR")
    /\ ~NoAbort(schedule)
    /\ dg.edges # {}
    /\ EdgeRelation(exp_dg) # EdgeRelation(dg)

\* C18: for a schedule in which every transaction has at most one commit and
\* no operation after it, with eq all topological orders of its acyclic
\* conflict graph, is_in_cocsr implies is_in_ocsr, whichever is called first;
\* for c1 r1(x), where 1 operates after its commit, is_in_cocsr is true and
\* is_in_ocsr false.
C18_CocsrImpliesOcsr ==
    Enumerated
        => /\ (~Malformed(schedule) /\ is_in_cocsr(schedule, eq))
                => is_in_ocsr(schedule, eq)
           /\ schedule = <<C(1), R(1, "x")>>
                => is_in_cocsr(schedule, eq) /\ ~is_in_ocsr(schedule, eq)

\* a schedule of that form in COCSR, with a transaction that starts after
\* the commit of another
C18_Witness ==
    /\ Enumerated
    /\ ~Malformed(schedule)
    /\ is_in_cocsr(schedule, eq)
    /\ \E i, j \in TrsOf(schedule) : StartsAfterCommit(schedule, i, j)
\* The Herbrand semantics of step k of s, by the definition of the module
\* docstring: a read has the semantics of the last write on its variable
\* before it (f0x() when there is none), a write of transaction i on x is
\* fix applied to the semantics of the reads of i before it, in order.
RECURSIVE StepSemantics(_, _)
StepSemantics(s, k) ==
    IF s[k].op_type = "r"
    THEN LET writes == {j \in 1..(k - 1) :
                           s[j].op_type = "w" /\ s[j].variable = s[k].variable}
         IN IF writes = {} THEN F(0, s[k].variable, <<>>)
            ELSE StepSemantics(s, CHOOSE j \in writes : \A m \in writes : m <= j)
    ELSE LET reads == {j \in 1..(k - 1) : s[j].op_type = "r" /\ s[j].tr = s[k].tr}
             nth(n) == CHOOSE j \in reads : Cardinality({m \in reads : m <= j}) = n
         IN F(s[k].tr, s[k].variable,
              [n \in 1..Cardinality(reads) |-> StepSemantics(s, nth(n))])

\* C15: compute_herbrand_semantics gives every step of every schedule its
\* Herbrand semantics, also when the same operation occurs more than once.
C15_EveryStepHasItsSemantics ==
    (prog = "herbrand" /\ pc # "start")
        => \A k \in DOMAIN schedule :
               dict_get(hs, schedule[k]) = StepSemantics(schedule, k)

\* the same, for the schedules in which no operation occurs twice
C15_DistinctStepsHaveTheirSemantics ==
    (/\ prog = "herbrand"
     /\ pc # "start"
     /\ \A i, j \in DOMAIN schedule : schedule[i] = schedule[j] => i = j)
        => \A k \in DOMAIN schedule :
               dict_get(hs, schedule[k]) = StepSemantics(schedule, k)
\* The shuffle product of the transactions ts: the empty history when all are
\* used up, else an operation at the head of one of them followed by a
\* history of the shuffle product of what is left.
RECURSIVE ShuffleProduct(_)
ShuffleProduct(ts) ==
    IF \A i \in DOMAIN ts : ts[i] = <<>> THEN {<<>>}
    ELSE UNION {{<<Head(ts[i])>> \o h : h \in ShuffleProduct([ts EXCEPT ![i] = Tail(ts[i])])} :
                i \in {j \in DOMAIN ts : ts[j] # <<>>}}

RECURSIVE Factorial(_)
Factorial(n) == IF n = 0 THEN 1 ELSE n * Factorial(n - 1)

RECURSIVE ProductOfFactorials(_)
ProductOfFactorials(ts) ==
    IF ts = <<>> THEN 1 ELSE Factorial(Len(Head(ts))) * ProductOfFactorials(Tail(ts))

Multinomial(ts) == Factorial(SumOfLengths(ts)) \div ProductOfFactorials(ts)

\* the histories printed
Yielded == {out[i][2] : i \in DOMAIN out}

\* C16: the histories yielded for the transactions are exactly their shuffle
\* product: each keeps every transaction as its projection, every
\* interleaving is among them, none comes twice, and their number is the
\* multinomial coefficient of the transaction lengths.
C16_ShuffleProduct ==
    (prog = "shuffle" /\ pc = "done")
        => /\ \A h \in Yielded : \A k \in DOMAIN transactions :
                  SelectSeq(h, LAMBDA o : o.tr = Tag(k - 1)) = transactions[k]
           /\ \A h \in Yielded : Len(h) = SumOfLengths(transactions)
           /\ Yielded = ShuffleProduct(transactions)
           /\ Cardinality(Yielded) = Len(out)
           /\ Len(out) = Multinomial(transactions)

\* three transactions are shuffled, with the same read twice in the first
\* and the same operation in the other two
C16_Witness ==
    /\ prog = "shuffle"
    /\ pc = "done"
    /\ Len(transactions) = 3
    /\ Len(transactions[1]) = 2
    /\ transactions[1][1] = transactions[1][2]
    /\ transactions[2] # <<>>
    /\ transactions[3] # <<>>
    /\ transactions[2][1].op_type = transactions[3][1].op_type
    /\ Len(out) > 1
====
